---------------------------- MODULE Spec2Model ----------------------------
(***************************************************************************)
(* A model of go-httptester: the HttpTester session, its requests and      *)
(* expectations, the JSON helpers and the test reporter they report to.    *)
(*                                                                         *)
(* Text (a Go string or []byte) is a sequence of tokens, each token a TLA+ *)
(* string: the body {"a":"x"} is <<"{", "\"a\"", ":", "\"x\"", "}">>.      *)
(* Parsing, path compilation, formatting and printf substitution work on   *)
(* these token sequences.                                                  *)
(***************************************************************************)
EXTENDS Integers, Sequences, FiniteSets, TLC

VARIABLES
    t,            \* the TestingTB the testers and JSON helpers report to
    ctl,          \* the test goroutine: "run", "exit" (FailNow or return), "panic"
    build,        \* the Go toolchain the program was built with
    testers,      \* the HttpTester values made by New, in order
    requests,     \* the HttpTesterRequest values made by Request, in order
    expectations, \* the HttpExpectation values made by Expect, in order
    transport,    \* the requests handed to client.Do, in order
    MaxReqRespOutput, \* the package variable that bounds the dumps in failure output
    ntests,       \* how many times Test has been called
    last,         \* the last call of New, Request, Expect, Test or a cleanup
    jcall         \* the last direct call of a JSON helper and what it returned

vars ==
    <<t, ctl, build, testers, requests, expectations, transport, MaxReqRespOutput, ntests, last, jcall>>

\* ------------------------------------------------------------------ text

\* The string literal tokens of the modelled documents and what each decodes to.
Unquote ==
    ("\"a\"" :> "a") @@ ("\"n\"" :> "n") @@ ("\"e\"" :> "e") @@ ("\"z\"" :> "z")
    @@ ("\"x\"" :> "x") @@ ("\"\"" :> "") @@ ("\"name\"" :> "name")
    @@ ("\"Scotty\"" :> "Scotty") @@ ("\"street\"" :> "street")
    @@ ("\"Fake Street\"" :> "Fake Street")

\* The number literal tokens of the modelled documents.
NumLits == {"1", "200"}

\* Decoded JSON values, as encoding/json decodes into `any`: nil, bool, float64,
\* string, []any, map[string]any.
JNull == [t |-> "nil", v |-> 0]
JStr(s) == [t |-> "string", v |-> s]
JNum(n) == [t |-> "float64", v |-> n]
JBool(b) == [t |-> "bool", v |-> b]
JArr(s) == [t |-> "slice", v |-> s]
JObj(f) == [t |-> "map", v |-> f]

ParseOk(val, rest) == [ok |-> TRUE, val |-> val, rest |-> rest]
ParseFail == [ok |-> FALSE, val |-> JNull, rest |-> <<>>]

RECURSIVE ParseValue(_), ParseMembers(_, _), ParseElements(_, _)

\* One JSON value at the head of ts.
ParseValue(ts) ==
    IF ts = <<>> THEN ParseFail
    ELSE LET h == Head(ts)
             r == Tail(ts)
         IN  CASE h \in DOMAIN Unquote -> ParseOk(JStr(Unquote[h]), r)
               [] h \in NumLits -> ParseOk(JNum(h), r)
               [] h = "null" -> ParseOk(JNull, r)
               [] h = "true" -> ParseOk(JBool(TRUE), r)
               [] h = "false" -> ParseOk(JBool(FALSE), r)
               [] h = "{" ->
                    IF r # <<>> /\ Head(r) = "}"
                    THEN ParseOk(JObj(<<>>), Tail(r))
                    ELSE ParseMembers(r, <<>>)
               [] h = "[" ->
                    IF r # <<>> /\ Head(r) = "]"
                    THEN ParseOk(JArr(<<>>), Tail(r))
                    ELSE ParseElements(r, <<>>)
               [] OTHER -> ParseFail

\* The members of an object after "{" : "key" : value, then "," or "}".
\* A repeated key keeps its last value.
ParseMembers(ts, acc) ==
    IF Len(ts) < 2 \/ Head(ts) \notin DOMAIN Unquote \/ ts[2] # ":"
    THEN ParseFail
    ELSE LET k == Unquote[Head(ts)]
             p == ParseValue(Tail(Tail(ts)))
         IN  IF ~p.ok \/ p.rest = <<>> THEN ParseFail
             ELSE LET acc2 == (k :> p.val) @@ acc
                  IN  CASE Head(p.rest) = "}" -> ParseOk(JObj(acc2), Tail(p.rest))
                        [] Head(p.rest) = "," -> ParseMembers(Tail(p.rest), acc2)
                        [] OTHER -> ParseFail

\* The elements of an array after "[" : value, then "," or "]".
ParseElements(ts, acc) ==
    LET p == ParseValue(ts)
    IN  IF ~p.ok \/ p.rest = <<>> THEN ParseFail
        ELSE LET acc2 == Append(acc, p.val)
             IN  CASE Head(p.rest) = "]" -> ParseOk(JArr(acc2), Tail(p.rest))
                   [] Head(p.rest) = "," -> ParseElements(Tail(p.rest), acc2)
                   [] OTHER -> ParseFail

\* json.Unmarshal(byteData, &out) for out of type any: the error (<<>> for nil)
\* and the decoded value (nil when it fails).
Unmarshal(byteData) ==
    LET p == ParseValue(byteData)
    IN  IF byteData = <<>> THEN [err |-> <<"unexpected end of JSON input">>, val |-> JNull]
        ELSE IF p.ok /\ p.rest = <<>> THEN [err |-> <<>>, val |-> p.val]
        ELSE [err |-> <<"invalid character">>, val |-> JNull]


\* sub occurs in text as a run of consecutive tokens.
IsInfix(sub, text) ==
    \E i \in 0..(Len(text) - Len(sub)) : SubSeq(text, i + 1, i + Len(sub)) = sub


\* ------------------------------------------------------------- JSON path

\* The array index tokens of the modelled paths.
IdxLits == ("0" :> 0) @@ ("1" :> 1)

PathPunct == {"$", ".", "[", "]"}

KeySel(name) == [k |-> "key", key |-> name, idx |-> 0 - 1]
IdxSel(tok) == [k |-> "idx", key |-> tok, idx |-> IdxLits[tok]]

RECURSIVE CompileSteps(_, _)

\* The selectors after "$": ".name" or "[i]", repeated.
CompileSteps(ts, acc) ==
    IF ts = <<>> THEN [err |-> <<>>, sels |-> acc]
    ELSE IF Head(ts) = "." /\ Len(ts) >= 2 /\ ts[2] \notin PathPunct
         THEN CompileSteps(SubSeq(ts, 3, Len(ts)), Append(acc, KeySel(ts[2])))
    ELSE IF Head(ts) = "[" /\ Len(ts) >= 3 /\ ts[2] \in DOMAIN IdxLits /\ ts[3] = "]"
         THEN CompileSteps(SubSeq(ts, 4, Len(ts)), Append(acc, IdxSel(ts[2])))
    ELSE [err |-> <<"parsing error">>, sels |-> <<>>]

\* builder.NewEvaluable(pathexpr) for the JSONPath subset "$" (".name" | "[i]")*:
\* the error (<<>> for nil) and the compiled selectors. On an error the returned
\* Evaluable is nil.
NewEvaluable(pathexpr) ==
    IF pathexpr # <<>> /\ Head(pathexpr) = "$"
    THEN CompileSteps(Tail(pathexpr), <<>>)
    ELSE [err |-> <<"parsing error">>, sels |-> <<>>]

\* One selector applied to a decoded value, as the JSONPath evaluator selects:
\* an index into a slice, a key into a map, an error for anything else.
SelectValue(sel, v) ==
    CASE v.t = "slice" ->
            IF sel.k # "idx"
            THEN [err |-> <<"could not select value, invalid key", sel.key>>, val |-> JNull]
            ELSE IF sel.idx >= Len(v.v)
            THEN [err |-> <<"index out of bounds", sel.key>>, val |-> JNull]
            ELSE [err |-> <<>>, val |-> v.v[sel.idx + 1]]
      [] v.t = "map" ->
            IF sel.key \in DOMAIN v.v
            THEN [err |-> <<>>, val |-> v.v[sel.key]]
            ELSE [err |-> <<"unknown key", sel.key>>, val |-> JNull]
      [] OTHER -> [err |-> <<"unsupported value type for select", v.t>>, val |-> JNull]

RECURSIVE Evaluate(_, _)

\* path(context.Background(), body): the selectors applied in turn; the first
\* error ends the evaluation with a nil value.
Evaluate(sels, v) ==
    IF sels = <<>> THEN [err |-> <<>>, val |-> v]
    ELSE LET r == SelectValue(Head(sels), v)
         IN  IF r.err # <<>> THEN r ELSE Evaluate(Tail(sels), r.val)

\* The evaluator's errors that say the path has no match: a key the map lacks,
\* an index past the slice.
IsNotFound(err) == err # <<>> /\ Head(err) \in {"unknown key", "index out of bounds"}

\* ------------------------------------------------------------ formatting

\* The map keys of the modelled documents in sorted order (fmt prints a map's
\* keys sorted).
KeyOrder == <<"a", "e", "n", "name", "street", "z">>

RECURSIVE FormatV(_), FormatElems(_, _), FormatKeys(_, _, _)

\* fmt.Sprintf("%v", v) of a decoded JSON value.
FormatV(v) ==
    CASE v.t = "nil" -> <<"<nil>">>
      [] v.t = "string" -> <<v.v>>
      [] v.t = "float64" -> <<v.v>>
      [] v.t = "bool" -> IF v.v THEN <<"true">> ELSE <<"false">>
      [] v.t = "slice" -> <<"[">> \o FormatElems(v.v, 1) \o <<"]">>
      [] v.t = "map" -> <<"map[">> \o FormatKeys(v.v, 1, TRUE) \o <<"]">>

FormatElems(s, i) ==
    IF i > Len(s) THEN <<>>
    ELSE (IF i > 1 THEN <<" ">> ELSE <<>>) \o FormatV(s[i]) \o FormatElems(s, i + 1)

FormatKeys(f, i, first) ==
    IF i > Len(KeyOrder) THEN <<>>
    ELSE IF KeyOrder[i] \in DOMAIN f
         THEN (IF first THEN <<>> ELSE <<" ">>) \o <<KeyOrder[i], ":">>
              \o FormatV(f[KeyOrder[i]]) \o FormatKeys(f, i + 1, FALSE)
         ELSE FormatKeys(f, i + 1, first)

\* An int handed to equals or fatal, and how fmt prints the ints in use.
I(n) == [k |-> "int", x |-> n]
IntText == (200 :> "200") @@ (204 :> "204") @@ (500 :> "500")

\* Values of Go type any handed to fatal: a string (text), an error, a decoded
\* value (and the readers and channels defined with JsonBody below).
S(text) == [k |-> "string", x |-> text]
E(err) == [k |-> "error", x |-> err]
V(val) == [k |-> "value", x |-> val]

\* format(val): fmt.Sprintf("%v", val).
format(val) ==
    CASE val.k = "string" -> val.x
      [] val.k = "error" -> val.x
      [] val.k = "value" -> FormatV(val.x)
      [] val.k = "reader" -> <<"&{reader}">>
      [] val.k = "chan" -> <<"0xc000010000">>
      [] val.k = "int" -> <<IntText[val.x]>>

RECURSIVE Join(_, _)

\* strings.Join(out, sep).
Join(out, sep) ==
    IF out = <<>> THEN <<>>
    ELSE IF Len(out) = 1 THEN out[1]
    ELSE out[1] \o <<sep>> \o Join(Tail(out), sep)


\* -------------------------------------------------------------- reporter

\* The program state an operation works on is a record m with at least the
\* fields t (the reporter) and ctl (the calling goroutine). An operation that
\* finds m.ctl # "run" has been unwound and does nothing more.

\* testing.TB's Error, where Fatal was meant: Log followed by Fail, and the
\* calling goroutine goes on.
testingError(m, args) ==
    [m EXCEPT !.t.fatals = Append(@, args),
              !.t.output = Append(@, args)]

\* testing.TB's Fatal, the reporter TestingTB stands for in real tests: Log
\* followed by FailNow, which ends the calling goroutine (runtime.Goexit).
testingFatal(m, args) ==
    [m EXCEPT !.t.fatals = Append(@, args),
              !.t.output = Append(@, args),
              !.ctl = "exit"]

\* exampleTestRunner.Fatal: prints the first failure only, and returns.
exampleTestRunnerFatal(m, args) ==
    IF ~m.t.finished
    THEN [m EXCEPT !.t.fatals = Append(@, args),
                   !.t.output = Append(@, <<"TEST FATAL:", " ">> \o args),
                   !.t.finished = TRUE]
    ELSE [m EXCEPT !.t.fatals = Append(@, args)]

\* t.Fatal(args) on the TestingTB in use.
Fatal(m, args) ==
    IF m.t.kind = "testing" THEN testingFatal(m, args) ELSE exampleTestRunnerFatal(m, args)

RECURSIVE formatAll(_)

formatAll(extra) ==
    IF extra = <<>> THEN <<>> ELSE <<format(Head(extra))>> \o formatAll(Tail(extra))

\* fatal invokes t.Fatal with the failure and the extras formatted, one per line.
fatal(m, failure, extra) ==
    Fatal(m, Join(<<format(failure)>> \o formatAll(extra), "\n"))

\* must fatals the test if err is not nil.
must(m, err, extra) ==
    IF err # <<>> THEN fatal(m, E(err), extra) ELSE m

\* A nil dereference or a call of a nil function: the goroutine panics.
Panic(m) == [m EXCEPT !.ctl = "panic"]

Ret(m, ret) == [m |-> m, ret |-> ret]

\* ---------------------------------------------------------- JSON helpers

\* MustParseJson without its check for an empty input.
MustParseJsonLenient(m, in, extra) ==
    LET Decode(m1, u) ==
            IF m1.ctl # "run" THEN Ret(m1, JNull)
            ELSE Ret(must(m1, u.err, extra), u.val)
    IN  Decode(m, Unmarshal(in))

\* MustParseJson[any]: fatals on an empty input and on a decoding error;
\* returns the decoded value.
MustParseJson(m, in, extra) ==
    LET Decode(m1, u) ==
            IF m1.ctl # "run" THEN Ret(m1, JNull)
            ELSE Ret(must(m1, u.err, extra), u.val)
    IN  Decode(IF Len(in) = 0
               THEN fatal(m, S(<<"cannot JSON parse an empty string">>), extra)
               ELSE m,
               Unmarshal(in))

\* DataContains: compiles pathexpr and evaluates it against the parsed data.
DataContains(m, data, pathexpr, extra) ==
    LET Select(c, m1) ==
            IF m1.ctl # "run" THEN Ret(m1, JNull)
            ELSE IF c.err # <<>> THEN Ret(Panic(m1), JNull)
            ELSE LET Result(r) ==
                        Ret(must(m1, r.err, <<S(<<"failed to capture JSON path">>), S(pathexpr),
                                              S(<<"full data">>), V(data)>>),
                            r.val)
                 IN  Result(Evaluate(c.sels, data))
        Compiled(c) == Select(c, must(m, c.err, extra))
    IN  Compiled(NewEvaluable(pathexpr))

\* JsonContains: parses data, then DataContains.
JsonContains(m, data, pathexpr, extra) ==
    LET Parsed(b) ==
            IF b.m.ctl # "run" THEN Ret(b.m, JNull)
            ELSE DataContains(b.m, b.ret, pathexpr, extra)
    IN  Parsed(MustParseJson(m, data, extra))

\* JsonContainsStr without its type check.
JsonContainsStrUnchecked(m, data, pathexpr, extra) ==
    LET Captured(c) == Ret(c.m, IF c.ret.t = "string" THEN c.ret.v ELSE "")
    IN  Captured(JsonContains(m, data, pathexpr, extra))

\* JsonContainsStr: JsonContains, then the value must be a string; returns the
\* string ("" when the value is none).
JsonContainsStr(m, data, pathexpr, extra) ==
    LET Captured(c, isStr, capturedStr) ==
            IF c.m.ctl # "run" THEN Ret(c.m, "")
            ELSE IF ~isStr
            THEN Ret(fatal(c.m, S(<<"jsonpath does not resolve to a string value">>),
                           <<S(<<"path">>), S(pathexpr), S(<<"val">>), V(c.ret),
                             S(<<"full data">>), S(data)>> \o extra),
                     capturedStr)
            ELSE Ret(c.m, capturedStr)
        Asserted(c) == Captured(c, c.ret.t = "string", IF c.ret.t = "string" THEN c.ret.v ELSE "")
    IN  Asserted(JsonContains(m, data, pathexpr, extra))

\* JsonNotContains that accepts only a not-found error as the absence of a match.
JsonNotContainsStrict(m, data, pathexpr, extra) ==
    LET Select(c, b) ==
            IF b.m.ctl # "run" THEN Ret(b.m, JNull)
            ELSE IF c.err # <<>> THEN Ret(Panic(b.m), JNull)
            ELSE LET Result(r) ==
                        IF ~IsNotFound(r.err)
                        THEN Ret(fatal(b.m, S(<<"did not expect JSON path to exist">>),
                                       <<S(<<"path">>), S(pathexpr), S(<<"matched">>), V(r.val)>>),
                                 r.val)
                        ELSE Ret(b.m, r.val)
                 IN  Result(Evaluate(c.sels, b.ret))
        Parse(c, m1) ==
            IF m1.ctl # "run" THEN Ret(m1, JNull)
            ELSE Select(c, MustParseJson(m1, data, extra))
        Compiled(c) == Parse(c, must(m, c.err, extra))
    IN  Compiled(NewEvaluable(pathexpr))

\* JsonNotContains: fatals if pathexpr evaluates without an error.
JsonNotContains(m, data, pathexpr, extra) ==
    LET Select(c, b) ==
            IF b.m.ctl # "run" THEN Ret(b.m, JNull)
            ELSE IF c.err # <<>> THEN Ret(Panic(b.m), JNull)
            ELSE LET Result(r) ==
                        IF r.err = <<>>
                        THEN Ret(fatal(b.m, S(<<"did not expect JSON path to exist">>),
                                       <<S(<<"path">>), S(pathexpr), S(<<"matched">>), V(r.val)>>),
                                 r.val)
                        ELSE Ret(b.m, r.val)
                 IN  Result(Evaluate(c.sels, b.ret))
        Parse(c, m1) ==
            IF m1.ctl # "run" THEN Ret(m1, JNull)
            ELSE Select(c, MustParseJson(m1, data, extra))
        Compiled(c) == Parse(c, must(m, c.err, extra))
    IN  Compiled(NewEvaluable(pathexpr))


\* ------------------------------------------------ direct JSON helper calls

\* The documents the JSON helpers are called with.
DocObj ==
    <<"{", "\"a\"", ":", "\"x\"", ",", "\"n\"", ":", "1", ",", "\"e\"", ":", "\"\"",
      ",", "\"z\"", ":", "null", "}">>
DocArr ==
    <<"[", "{", "\"name\"", ":", "\"Scotty\"", ",", "\"a\"", ":", "{", "\"street\"",
      ":", "\"Fake Street\"", "}", "}", "]">>
DocEmpty == <<>>
DocCut == <<"{", "\"a\"", ":">>
Docs == {DocObj, DocArr, DocEmpty, DocCut}

\* The path expressions they are called with.
Paths ==
    { <<"$", ".", "a">>, <<"$", ".", "n">>, <<"$", ".", "e">>, <<"$", ".", "z">>,
      <<"$", ".", "q">>, <<"$", ".", "a", ".", "street">>, <<"$", ".", "a", ".", "b">>,
      <<"$", "[", "0", "]", ".", "name">>, <<"$", "[", "0", "]", ".", "foo">>,
      <<"$", "[", "1", "]">>, <<"$">>, <<"$", "[">> }

\* The extra diagnostics a caller passes.
Extras == {<<>>, <<S(<<"while listing">>)>>}

\* How many direct helper calls one test makes.
MaxJsonCalls == 1

NoCall == [fn |-> "none", n |-> 0]

\* The reporters a test can run under: testing.TB, or the example's runner.
Reporters ==
    { [kind |-> k, finished |-> FALSE, fatals |-> <<>>, output |-> <<>>, cleanups |-> <<>>] :
        k \in {"testing", "example"} }

\* var MaxReqRespOutput = 1200
DefaultMaxReqRespOutput == 1200

\* The state of a test before its first statement.
Init ==
    /\ t \in Reporters
    /\ ctl = "run"
    /\ build \in [strictColons : BOOLEAN]
    /\ testers = <<>>
    /\ requests = <<>>
    /\ expectations = <<>>
    /\ transport = <<>>
    /\ MaxReqRespOutput = DefaultMaxReqRespOutput
    /\ ntests = 0
    /\ last = [op |-> "none"]
    /\ jcall = NoCall

M0 == [t |-> t, ctl |-> ctl]

sessionVars ==
    <<build, testers, requests, expectations, transport, MaxReqRespOutput, ntests, last>>

\* The test calls helper fn on data and pathexpr.
CallHelper(fn, r, data, pathexpr, extra) ==
    /\ t' = r.m.t
    /\ ctl' = r.m.ctl
    /\ jcall' = [fn |-> fn, n |-> jcall.n + 1, data |-> data, pathexpr |-> pathexpr,
                 extra |-> extra, before |-> Len(t.fatals), ret |-> r.ret]
    /\ UNCHANGED sessionVars

CallJsonContainsStr ==
    /\ ctl = "run" /\ jcall.n < MaxJsonCalls
    /\ \E data \in Docs, pathexpr \in Paths, extra \in Extras :
         LET r == JsonContainsStr(M0, data, pathexpr, extra)
         IN  CallHelper("JsonContainsStr", Ret(r.m, JStr(r.ret)), data, pathexpr, extra)

CallJsonContains ==
    /\ ctl = "run" /\ jcall.n < MaxJsonCalls
    /\ \E data \in Docs, pathexpr \in Paths, extra \in Extras :
         CallHelper("JsonContains", JsonContains(M0, data, pathexpr, extra),
                    data, pathexpr, extra)

CallJsonNotContains ==
    /\ ctl = "run" /\ jcall.n < MaxJsonCalls
    /\ \E data \in Docs, pathexpr \in Paths, extra \in Extras :
         CallHelper("JsonNotContains", JsonNotContains(M0, data, pathexpr, extra),
                    data, pathexpr, extra)

CallMustParseJson ==
    /\ ctl = "run" /\ jcall.n < MaxJsonCalls
    /\ \E data \in Docs, extra \in Extras :
         CallHelper("MustParseJson", MustParseJson(M0, data, extra), data, <<>>, extra)

NextJson ==
    \/ CallJsonContainsStr
    \/ CallJsonContains
    \/ CallJsonNotContains
    \/ CallMustParseJson

\* A test that calls the JSON helpers directly.
SpecJson == Init /\ [][NextJson]_vars


\* ------------------------------------------------------------ http, url

Range(seq) == {seq[i] : i \in 1..Len(seq)}

\* srv.URL of the httptest.Server: scheme and authority, no path.
srvURL == <<"http://", "127.0.0.1:1234">>

\* URL tokens that begin a path.
PathStarts == {"/", "/api"}

NilURL == [nil |-> TRUE, s |-> <<>>, host |-> <<>>]

RECURSIVE TakeAuthority(_)

\* The authority of an absolute URL: what follows "scheme://" up to the first
\* "/". A second "http://" in the text gives its "http:" to the authority.
TakeAuthority(ts) ==
    IF ts = <<>> \/ Head(ts) \in PathStarts THEN <<>>
    ELSE IF Head(ts) = "http://" THEN <<"http:">>
    ELSE <<Head(ts)>> \o TakeAuthority(Tail(ts))

\* url.Parse(raw). An invalid escape fails; a reference without a scheme is
\* relative; the port of an authority must be digits. A host that holds a
\* further colon before an empty port ("127.0.0.1:1234http:") is accepted by
\* toolchains that do not check colons in the host, and rejected by those that do.
UrlParse(raw, strictColons) ==
    IF "%zz" \in Range(raw) THEN [err |-> <<"invalid URL escape">>, url |-> NilURL]
    ELSE IF raw = <<>> \/ Head(raw) # "http://"
    THEN [err |-> <<>>, url |-> [nil |-> FALSE, s |-> raw, host |-> <<>>]]
    ELSE LET a == TakeAuthority(Tail(raw))
         IN  IF Len(a) <= 1
             THEN [err |-> <<>>, url |-> [nil |-> FALSE, s |-> raw, host |-> a]]
             ELSE IF a[Len(a)] = "http:" /\ ~strictColons
             THEN [err |-> <<>>, url |-> [nil |-> FALSE, s |-> raw, host |-> a]]
             ELSE [err |-> <<"invalid port after host">>, url |-> NilURL]

\* Methods that are no valid HTTP token.
InvalidMethods == {"BAD METHOD"}

\* textproto.CanonicalMIMEHeaderKey for the header names in use.
CanonicalMIMEHeaderKey(name) ==
    CASE name = "content-type" -> "Content-Type"
      [] name = "authorization" -> "Authorization"
      [] OTHER -> name

\* http.Header.Add, where Set was meant.
HeaderAdd(Header, name, val) ==
    LET key == CanonicalMIMEHeaderKey(name)
    IN  (key :> ((IF key \in DOMAIN Header THEN Header[key] ELSE <<>>) \o <<val>>)) @@ Header

\* http.Header.Set: the canonical key holds exactly val.
HeaderSet(Header, name, val) ==
    (CanonicalMIMEHeaderKey(name) :> <<val>>) @@ Header

\* http.Header.Get: the first value of the canonical key, "" when there is none.
HeaderGet(Header, name) ==
    LET key == CanonicalMIMEHeaderKey(name)
    IN  IF key \in DOMAIN Header /\ Header[key] # <<>> THEN Header[key][1] ELSE <<>>

\* A request body: none, or a reader with the bytes still unread. The reader
\* of kind "multipart" is the request's multipartFormBuffer itself.
NoBody == [kind |-> "nil", data |-> <<>>]

NilRequest == [nil |-> TRUE, Method |-> "", URL |-> NilURL, Header |-> <<>>, Body |-> NoBody]

\* http.NewRequest(method, url, nil).
NewRequest(method, url) ==
    LET u == UrlParse(url, FALSE)
    IN  IF method \in InvalidMethods
        THEN [err |-> <<"net/http: invalid method", method>>, req |-> NilRequest]
        ELSE IF u.err # <<>> THEN [err |-> u.err, req |-> NilRequest]
        ELSE [err |-> <<>>,
              req |-> [nil |-> FALSE, Method |-> IF method = "" THEN "GET" ELSE method,
                       URL |-> u.url, Header |-> <<>>, Body |-> NoBody]]

\* ---------------------------------------------------------- serialization

\* A value of Go type any given to JsonBody: a string, an io.Reader with its
\* content, a decoded JSON value (S, V above), or a channel, which has no JSON form.
R(content) == [k |-> "reader", x |-> content]
Chan == [k |-> "chan", x |-> <<>>]

\* The string literal token of a decoded string.
Quote(str) == CHOOSE tok \in DOMAIN Unquote : Unquote[tok] = str

RECURSIVE MarshalValue(_, _), MarshalElems(_, _, _), MarshalKeys(_, _, _, _)

Indent(depth) == [i \in 1..depth |-> "  "]

\* json.MarshalIndent(v, "", "  ") of a decoded value at nesting depth.
MarshalValue(v, depth) ==
    CASE v.t = "nil" -> <<"null">>
      [] v.t = "string" -> <<Quote(v.v)>>
      [] v.t = "float64" -> <<v.v>>
      [] v.t = "bool" -> IF v.v THEN <<"true">> ELSE <<"false">>
      [] v.t = "slice" ->
            IF v.v = <<>> THEN <<"[", "]">>
            ELSE <<"[">> \o MarshalElems(v.v, 1, depth + 1)
                 \o <<"\n">> \o Indent(depth) \o <<"]">>
      [] v.t = "map" ->
            IF DOMAIN v.v = {} THEN <<"{", "}">>
            ELSE <<"{">> \o MarshalKeys(v.v, 1, depth + 1, TRUE)
                 \o <<"\n">> \o Indent(depth) \o <<"}">>

MarshalElems(s, i, depth) ==
    IF i > Len(s) THEN <<>>
    ELSE (IF i > 1 THEN <<",">> ELSE <<>>) \o <<"\n">> \o Indent(depth)
         \o MarshalValue(s[i], depth) \o MarshalElems(s, i + 1, depth)

MarshalKeys(f, i, depth, first) ==
    IF i > Len(KeyOrder) THEN <<>>
    ELSE IF KeyOrder[i] \in DOMAIN f
         THEN (IF first THEN <<>> ELSE <<",">>) \o <<"\n">> \o Indent(depth)
              \o <<Quote(KeyOrder[i]), ":", " ">> \o MarshalValue(f[KeyOrder[i]], depth)
              \o MarshalKeys(f, i + 1, depth, FALSE)
         ELSE MarshalKeys(f, i + 1, depth, first)

\* json.MarshalIndent(body, "", "  ") of a value of type any: a Go string is a
\* JSON string, a reader is a struct without exported fields, a channel fails.
MarshalIndent(body) ==
    CASE body.k = "value" -> [err |-> <<>>, b |-> MarshalValue(body.x, 0)]
      [] body.k = "string" -> [err |-> <<>>, b |-> <<"\"">> \o body.x \o <<"\"">>]
      [] body.k = "reader" -> [err |-> <<>>, b |-> <<"{", "}">>]
      [] body.k = "chan" -> [err |-> <<"json: unsupported type">>, b |-> <<>>]

\* The printf verbs of the modelled templates.
Verbs == {"%s", "%v"}

RECURSIVE Sprintf(_, _)

\* fmt.Sprintf(tmpl, args...): each verb takes the next argument, a verb
\* without one prints MISSING, arguments left over print as EXTRA.
Sprintf(tmpl, args) ==
    IF tmpl = <<>>
    THEN IF args = <<>> THEN <<>>
         ELSE <<"%!(EXTRA ">> \o Join(formatAll(args), ", ") \o <<")">>
    ELSE IF Head(tmpl) \in Verbs
         THEN IF args = <<>>
              THEN <<"%!", Head(tmpl), "(MISSING)">> \o Sprintf(Tail(tmpl), args)
              ELSE format(Head(args)) \o Sprintf(Tail(tmpl), Tail(args))
         ELSE <<Head(tmpl)>> \o Sprintf(Tail(tmpl), args)


\* --------------------------------------------------------------- options

\* What a test writes as a request option: the constructor and its arguments.
OptHeader(name, val) ==
    [op |-> "Header", name |-> name, val |-> val, filename |-> "", body |-> S(<<>>), args |-> <<>>]
OptBearer(token) ==
    [op |-> "Bearer", name |-> "", val |-> <<token>>, filename |-> "", body |-> S(<<>>), args |-> <<>>]
OptJsonBody(body, args) ==
    [op |-> "JsonBody", name |-> "", val |-> <<>>, filename |-> "", body |-> body, args |-> args]
OptMultipartFormFile(fieldname, filename, data) ==
    [op |-> "MultipartFormFile", name |-> fieldname, val |-> data, filename |-> filename,
     body |-> S(<<>>), args |-> <<>>]
OptMultipartFormField(name, val) ==
    [op |-> "MultipartFormField", name |-> name, val |-> val, filename |-> "",
     body |-> S(<<>>), args |-> <<>>]

\* A RequestOption: the closure a constructor returns, with what it captured.
Closure(fn, name, val, filename, args) ==
    [fn |-> fn, name |-> name, val |-> val, filename |-> filename, args |-> args]

\* Header(name, val): the closure that sets the header.
Header(m, name, val) == Ret(m, Closure("Header", name, val, "", <<>>))

\* Bearer(token): Header("Authorization", "Bearer " + token).
Bearer(m, token) == Header(m, "Authorization", Sprintf(<<"Bearer ", "%s">>, <<S(token)>>))

\* JsonBody(body, args...): the body string is computed when the option is
\* made. A reader is read, but the string assertion that follows overwrites what
\* was read with "", and, a reader being no string, the value is marshalled.
JsonBody(m, body, args) ==
    LET fromReader == IF body.k = "reader" THEN body.x ELSE <<>>
        isStr == body.k = "string"
        asserted == IF isStr THEN body.x ELSE <<>>
        Marshalled(j) ==
            Ret(must(m, j.err, <<S(<<"cannot convert body data to JSON">>), body>>),
                Closure("JsonBody", "", j.b, "", args))
    IN  IF isStr THEN Ret(m, Closure("JsonBody", "", asserted, "", args))
        ELSE Marshalled(MarshalIndent(body))

MultipartFormFile(m, fieldname, filename, data) ==
    Ret(m, Closure("MultipartFormFile", fieldname, data, filename, <<>>))

MultipartFormField(m, name, val) ==
    Ret(m, Closure("MultipartFormField", name, val, "", <<>>))

\* One option expression of a Request call evaluated.
MakeOption(m, o) ==
    CASE o.op = "Header" -> Header(m, o.name, o.val)
      [] o.op = "Bearer" -> Bearer(m, o.val)
      [] o.op = "JsonBody" -> JsonBody(m, o.body, o.args)
      [] o.op = "MultipartFormFile" -> MultipartFormFile(m, o.name, o.filename, o.val)
      [] o.op = "MultipartFormField" -> MultipartFormField(m, o.name, o.val)

RECURSIVE MakeOptions(_, _, _)

\* The option arguments of a call are evaluated left to right before the call;
\* a FailNow in one of them ends the goroutine before the call is made.
MakeOptions(m, opts, acc) ==
    IF opts = <<>> \/ m.ctl # "run" THEN Ret(m, acc)
    ELSE LET r == MakeOption(m, Head(opts))
         IN  MakeOptions(r.m, Tail(opts), Append(acc, r.ret))

\* ------------------------------------------------------------- multipart

NilWriter == [nil |-> TRUE, boundary |-> "", lastpart |-> FALSE]

\* The boundary multipart.NewWriter draws.
Boundary == "BOUNDARY"

\* HttpTesterRequest.multipart(): the writer, made with its buffer on first use.
multipart(m, rq) ==
    IF m.requests[rq].multipartForm.nil
    THEN [m EXCEPT !.requests[rq].multipartFormBuffer = <<>>,
                   !.requests[rq].multipartForm =
                        [nil |-> FALSE, boundary |-> Boundary, lastpart |-> FALSE]]
    ELSE m

\* multipart.Writer.CreatePart: the boundary line (after a line break when a
\* part came before), the part's header, an empty line.
CreatePart(m, rq, header) ==
    LET w == m.requests[rq].multipartForm
        delim == IF w.lastpart THEN <<"\r\n", "--", w.boundary, "\r\n">>
                 ELSE <<"--", w.boundary, "\r\n">>
    IN  [m EXCEPT !.requests[rq].multipartFormBuffer = @ \o delim \o header \o <<"\r\n">>,
                  !.requests[rq].multipartForm.lastpart = TRUE]

CreateFormFile(m, rq, fieldname, filename) ==
    CreatePart(m, rq, <<"Content-Disposition: form-data; name=", fieldname,
                        "; filename=", filename, "\r\n",
                        "Content-Type: application/octet-stream", "\r\n">>)

CreateFormField(m, rq, fieldname) ==
    CreatePart(m, rq, <<"Content-Disposition: form-data; name=", fieldname, "\r\n">>)

\* The part's Write, and io.Copy into it.
PartWrite(m, rq, data) ==
    [m EXCEPT !.requests[rq].multipartFormBuffer = @ \o data]

\* multipart.Writer.Close: the closing boundary line. Nothing keeps a closed
\* writer from being closed again.
WriterClose(m, rq) ==
    [m EXCEPT !.requests[rq].multipartFormBuffer =
                    @ \o <<"\r\n", "--", m.requests[rq].multipartForm.boundary, "--", "\r\n">>,
              !.requests[rq].multipartForm.lastpart = FALSE]

FormDataContentType(w) == <<"multipart/form-data; boundary=", w.boundary>>

\* ---------------------------------------------------------------- Request

\* A RequestOption applied to request rq. The header and body options write
\* through req.request, which is nil when http.NewRequest failed.
ApplyOption(m, rq, o) ==
    LET req == m.requests[rq].request
    IN  CASE o.fn = "Header" ->
                IF req.nil THEN Panic(m)
                ELSE [m EXCEPT !.requests[rq].request.Header = HeaderSet(@, o.name, o.val)]
          [] o.fn = "JsonBody" ->
                IF req.nil THEN Panic(m)
                ELSE [m EXCEPT !.requests[rq].request.Header =
                                    HeaderSet(@, "Content-Type", <<"application/json">>),
                               !.requests[rq].request.Body =
                                    [kind |-> "string", data |-> Sprintf(o.val, o.args)]]
          [] o.fn = "MultipartFormFile" ->
                PartWrite(CreateFormFile(multipart(m, rq), rq, o.name, o.filename), rq, o.val)
          [] o.fn = "MultipartFormField" ->
                PartWrite(CreateFormField(multipart(m, rq), rq, o.name), rq, o.val)

RECURSIVE ApplyOptions(_, _, _)

\* for _, opt := range options { opt(request) }
ApplyOptions(m, rq, options) ==
    IF options = <<>> \/ m.ctl # "run" THEN m
    ELSE ApplyOptions(ApplyOption(m, rq, Head(options)), rq, Tail(options))

\* HttpTester.Request that registers the request and applies the options
\* whether or not the goroutine is still running.
RequestUnguarded(m, h, method, path, stack, options) ==
    LET rq == Len(m.requests) + 1
        Built(nr) ==
            Ret([must(m, nr.err, <<>>) EXCEPT
                    !.requests = Append(@, [request |-> nr.req, tester |-> h,
                                            done |-> FALSE, stack |-> stack,
                                            multipartForm |-> NilWriter,
                                            multipartFormBuffer |-> <<>>,
                                            options |-> options,
                                            tested |-> FALSE]),
                    !.testers[h].requests = Append(@, rq)],
                rq)
    IN  Built(NewRequest(method, path))

\* HttpTester.Request: builds the http.Request, registers the new
\* HttpTesterRequest with the tester, applies the options in order. (The
\* fields options and tested are history: the options the request was made
\* with, and whether a test has called Test on it.)
Request(m, h, method, path, stack, options) ==
    LET rq == Len(m.requests) + 1
        Register(nr, m1) ==
            IF m1.ctl # "run" THEN Ret(m1, 0)
            ELSE Ret(ApplyOptions(
                        [m1 EXCEPT !.requests =
                                        Append(@, [request |-> nr.req, tester |-> h,
                                                   done |-> FALSE, stack |-> stack,
                                                   multipartForm |-> NilWriter,
                                                   multipartFormBuffer |-> <<>>,
                                                   options |-> options,
                                                   tested |-> FALSE]),
                                   !.testers[h].requests = Append(@, rq)],
                        rq, options),
                     rq)
        Built(nr) == Register(nr, must(m, nr.err, <<>>))
    IN  Built(NewRequest(method, path))


\* ---------------------------------------------------------------- Expect

\* equals fatals the test if the values are not deeply equal.
equals(m, expected, actual, extra) ==
    IF expected # actual
    THEN fatal(m, S(<<"values are not equal">>),
               <<S(<<"expected">>), expected, S(<<"actual">>), actual>> \o extra)
    ELSE m

\* What a test writes as a response option: the constructor and its arguments.
ExpectCode(code) ==
    [op |-> "ExpectCode", text |-> <<>>, name |-> "", code |-> code, match |-> V(JNull)]
ExpectBodyContains(content) ==
    [op |-> "ExpectBodyContains", text |-> content, name |-> "", code |-> 0, match |-> V(JNull)]
ExpectContentType(contentType) ==
    [op |-> "ExpectContentType", text |-> contentType, name |-> "", code |-> 0, match |-> V(JNull)]
ExpectJsonExists(path) ==
    [op |-> "ExpectJsonExists", text |-> path, name |-> "", code |-> 0, match |-> V(JNull)]
ExpectJsonMatchStr(path, match) ==
    [op |-> "ExpectJsonMatchStr", text |-> path, name |-> "", code |-> 0, match |-> V(JStr(match))]
ExpectJsonMatch(path, match) ==
    [op |-> "ExpectJsonMatch", text |-> path, name |-> "", code |-> 0, match |-> match]
CaptureJson(name, jsonpath) ==
    [op |-> "CaptureJson", text |-> jsonpath, name |-> name, code |-> 0, match |-> V(JNull)]

\* CaptureJson that keeps the path a name was first registered with.
ApplyResponseOptionKeepFirst(m, e, o) ==
    IF o.op = "CaptureJson"
    THEN [m EXCEPT !.expectations[e].jsonCaptures = @ @@ (o.name :> o.text)]
    ELSE [m EXCEPT !.expectations[e].responseExpectations = Append(@, o)]

\* A ResponseOption applied to expectation e: a check is appended to the
\* checks, a capture is stored under its name.
ApplyResponseOption(m, e, o) ==
    IF o.op = "CaptureJson"
    THEN [m EXCEPT !.expectations[e].jsonCaptures = (o.name :> o.text) @@ @]
    ELSE [m EXCEPT !.expectations[e].responseExpectations = Append(@, o)]

RECURSIVE ApplyResponseOptions(_, _, _)

ApplyResponseOptions(m, e, options) ==
    IF options = <<>> THEN m
    ELSE ApplyResponseOptions(ApplyResponseOption(m, e, Head(options)), e, Tail(options))

\* HttpTesterRequest.Expect: a new HttpExpectation for request rq, configured
\* by the options in order. (The field options is history: the options the
\* expectation was made with.)
Expect(m, rq, options) ==
    LET e == Len(m.expectations) + 1
        expectation == [request |-> rq, responseExpectations |-> <<>>, jsonCaptures |-> <<>>,
                        options |-> options]
    IN  Ret(ApplyResponseOptions([m EXCEPT !.expectations = Append(@, expectation)], e, options), e)

\* One registered check run on the response: the closure its constructor made.
RunCheck(m, c, response, body, extra) ==
    LET extra2 == <<S(Sprintf(<<"json path: ", "%s">>, <<S(c.text)>>))>> \o extra
    IN  CASE c.op = "ExpectCode" -> equals(m, I(c.code), I(response.StatusCode), extra)
          [] c.op = "ExpectBodyContains" ->
                IF ~IsInfix(c.text, body)
                THEN fatal(m, S(<<"body contains failed">>),
                           <<S(<<"contains">>), S(c.text), S(<<"body">>), S(body)>> \o extra)
                ELSE m
          [] c.op = "ExpectContentType" ->
                equals(m, S(c.text), S(HeaderGet(response.Header, "Content-Type")), extra)
          [] c.op = "ExpectJsonExists" -> JsonContainsStr(m, body, c.text, extra).m
          [] c.op = "ExpectJsonMatchStr" ->
                LET Compare(r) ==
                        IF r.m.ctl # "run" THEN r.m
                        ELSE equals(r.m, c.match, V(JStr(r.ret)), extra2)
                IN  Compare(JsonContainsStr(m, body, c.text, extra2))
          [] c.op = "ExpectJsonMatch" ->
                LET Compare(r) ==
                        IF r.m.ctl # "run" THEN r.m
                        ELSE equals(r.m, c.match, V(r.ret), extra2)
                IN  Compare(JsonContains(m, body, c.text, extra2))


\* ------------------------------------------------------------------ Test

\* The header names in use in sorted order (a dump writes headers sorted).
HeaderOrder == <<"Authorization", "Content-Type", "X-Id">>

RECURSIVE DumpValues(_, _), DumpHeader(_, _)

DumpValues(key, vals) ==
    IF vals = <<>> THEN <<>>
    ELSE <<key, ": ">> \o Head(vals) \o <<"\r\n">> \o DumpValues(key, Tail(vals))

DumpHeader(hdr, i) ==
    IF i > Len(HeaderOrder) THEN <<>>
    ELSE (IF HeaderOrder[i] \in DOMAIN hdr THEN DumpValues(HeaderOrder[i], hdr[HeaderOrder[i]])
          ELSE <<>>) \o DumpHeader(hdr, i + 1)

\* The path a URL's text asks for: what follows the authority.
RequestURI(url) ==
    IF url.s # <<>> /\ Head(url.s) = "http://"
    THEN SubSeq(url.s, Len(url.host) + 2, Len(url.s))
    ELSE url.s

\* httputil.DumpRequest(r, true) with the body's bytes.
DumpRequest(r, body) ==
    <<r.Method, " ">> \o RequestURI(r.URL) \o <<" ", "HTTP/1.1", "\r\n", "Host: ">>
    \o r.URL.host \o <<"\r\n">> \o DumpHeader(r.Header, 1) \o <<"\r\n">> \o body

StatusLine == (200 :> "200 OK") @@ (204 :> "204 No Content") @@ (500 :> "500 Internal Server Error")

\* httputil.DumpResponse(resp, true).
DumpResponse(resp, body) ==
    <<"HTTP/1.1", " ", StatusLine[resp.StatusCode], "\r\n">> \o DumpHeader(resp.Header, 1)
    \o <<"\r\n">> \o body

\* fbrmath.Min
Min(a, b) == IF a < b THEN a ELSE b

NilResponse == [nil |-> TRUE, StatusCode |-> 0, Header |-> <<>>, Body |-> <<>>]

\* What one Test call has done so far: the diagnostics it has gathered, the
\* response it got, the checks it ran and the captures it resolved, in order,
\* each with the number of failures the reporter had seen when it began.
\* (reqData and respData are history: the dumps as DumpRequest and
\* DumpResponse returned them, each in a sequence that is empty until the
\* dump is made.)
NoTrace ==
    [extra |-> <<>>, did |-> <<>>, resp |-> NilResponse, bodyStr |-> <<>>,
     ran |-> <<>>, resolved |-> <<>>, captures |-> <<>>, returned |-> FALSE,
     reqData |-> <<>>, respData |-> <<>>]

Did(m, step) == [m EXCEPT !.tr.did = Append(@, step)]

\* The bytes a request body still holds.
BodyData(m, rq) ==
    LET b == m.requests[rq].request.Body
    IN  IF b.kind = "multipart" THEN m.requests[rq].multipartFormBuffer ELSE b.data

\* A read of the request body to its end: the reader is left empty.
DrainBody(m, rq) ==
    IF m.requests[rq].request.Body.kind = "multipart"
    THEN [m EXCEPT !.requests[rq].multipartFormBuffer = <<>>]
    ELSE [m EXCEPT !.requests[rq].request.Body.data = <<>>]

\* Test marking every request of its tester done.
MarkAllDone(m, rq) ==
    Did([m EXCEPT !.requests =
                    [k \in DOMAIN @ |->
                        IF @[k].tester = @[rq].tester THEN [@[k] EXCEPT !.done = TRUE] ELSE @[k]]],
        "done")

\* h.request.done = true
MarkDone(m, rq) == Did([m EXCEPT !.requests[rq].done = TRUE], "done")

\* HttpTesterRequest.finalise: with a multipart writer, closes it and makes
\* its buffer the body and its content type the Content-Type.
finalise(m, rq) ==
    LET h == m.requests[rq]
        m1 == WriterClose(m, rq)
    IN  IF m.ctl # "run" \/ h.multipartForm.nil THEN m
        ELSE IF h.request.nil THEN Panic(m1)
        ELSE [m1 EXCEPT !.requests[rq].request.Body = [kind |-> "multipart", data |-> <<>>],
                        !.requests[rq].request.Header =
                            HeaderSet(@, "Content-Type", FormDataContentType(h.multipartForm))]

\* r.URL, err = r.URL.Parse(srv.URL + r.URL.String()); must(t, err, extra...)
ResolveURL(m, rq, strictColons) ==
    LET r == m.requests[rq].request
        p == UrlParse(srvURL \o r.URL.s, strictColons)
    IN  IF m.ctl # "run" THEN m
        ELSE IF r.nil \/ r.URL.nil THEN Panic(m)
        ELSE Did(must([m EXCEPT !.requests[rq].request.URL = p.url], p.err, m.tr.extra), "url")

\* The request dump, cut to max, joins the diagnostics. The dump reads the
\* body and leaves a copy of it in its place. reqData[0:l] with a negative l
\* is a slice out of range: the goroutine panics.
AttachRequestDump(m, rq, max) ==
    LET r == m.requests[rq].request
        data == BodyData(m, rq)
        reqData == DumpRequest(r, data)
        l == Min(max, Len(reqData))
        m1 == IF r.Body.kind = "nil" THEN m
              ELSE [DrainBody(m, rq) EXCEPT
                        !.requests[rq].request.Body = [kind |-> "copy", data |-> data]]
        m2 == [m1 EXCEPT !.tr.reqData = <<reqData>>]
    IN  IF m.ctl # "run" THEN m
        ELSE IF r.URL.nil THEN Panic(m)
        ELSE IF l < 0 THEN Panic(m2)
        ELSE Did([m2 EXCEPT !.tr.extra = @ \o <<S(<<"HTTP request:">>), S(SubSeq(reqData, 1, l))>>],
                 "reqdump")

\* What the round trip and the read of the response body can come to.
Responded(resp) == [kind |-> "response", resp |-> resp]
DoFails == [kind |-> "doerr", resp |-> NilResponse]
ReadFails(resp) == [kind |-> "readerr", resp |-> resp]

\* resp, err := client.Do(r); must(t, err, extra...). The request is handed
\* to the transport, which reads its body when the round trip succeeds; a
\* host that is not the server's cannot be dialled.
Do(m, rq, outcome) ==
    LET r == m.requests[rq].request
        sent == [rq |-> rq, Method |-> r.Method, URL |-> r.URL.s, Header |-> r.Header,
                 Body |-> BodyData(m, rq)]
        dialled == r.URL.host = <<srvURL[2]>>
        RoundTrip(err) ==
            Did(must(IF err = <<>>
                     THEN [DrainBody(m, rq) EXCEPT !.transport = Append(@, sent),
                                                   !.tr.resp = outcome.resp]
                     ELSE [m EXCEPT !.transport = Append(@, sent)],
                     err, m.tr.extra),
                "do")
    IN  IF m.ctl # "run" THEN m
        ELSE RoundTrip(IF ~dialled THEN <<"dial tcp: too many colons in address">>
                       ELSE IF outcome.kind = "doerr" THEN <<"connection refused">>
                       ELSE <<>>)

\* body, err := io.ReadAll(resp.Body); must(t, err, extra...); the body is
\* closed and replaced by a copy of what was read.
ReadBody(m, outcome) ==
    LET failed == outcome.kind = "readerr"
        body == IF failed THEN <<>> ELSE m.tr.resp.Body
        m1 == [m EXCEPT !.tr.bodyStr = body, !.tr.resp.Body = body]
    IN  IF m.ctl # "run" THEN m
        ELSE IF m.tr.resp.nil THEN Panic(m)
        ELSE Did(must(m1, IF failed THEN <<"unexpected EOF">> ELSE <<>>, m.tr.extra), "read")

\* The response dump, cut to max, joins the diagnostics; respData[0:l] with
\* a negative l panics.
AttachResponseDump(m, max) ==
    LET respData == DumpResponse(m.tr.resp, m.tr.bodyStr)
        l == Min(max, Len(respData))
        m1 == [m EXCEPT !.tr.respData = <<respData>>]
    IN  IF m.ctl # "run" THEN m
        ELSE IF l < 0 THEN Panic(m1)
        ELSE Did([m1 EXCEPT !.tr.extra = @ \o <<S(<<"HTTP response:">>), S(SubSeq(respData, 1, l))>>],
                 "respdump")

\* What the trace keeps of check i as it begins: the failures reported so
\* far, and the response and the body text the check is given.
Began(m, i) ==
    [check |-> i, failed |-> Len(m.t.fatals), response |-> m.tr.resp, body |-> m.tr.bodyStr]

RECURSIVE RunChecksFailFast(_, _, _)

\* The loop over the checks, left at the first check that reported a failure.
RunChecksFailFast(m, e, i) ==
    IF m.ctl # "run" \/ i > Len(m.expectations[e].responseExpectations) THEN m
    ELSE IF m.tr.ran # <<>> /\ Len(m.t.fatals) > m.tr.ran[Len(m.tr.ran)].failed THEN m
    ELSE RunChecksFailFast(RunCheck([m EXCEPT !.tr.ran = Append(@, Began(m, i))],
                                    m.expectations[e].responseExpectations[i],
                                    m.tr.resp, m.tr.bodyStr, m.tr.extra),
                           e, i + 1)

RECURSIVE RunChecks(_, _, _)

\* for _, expectation := range h.responseExpectations { ... }
RunChecks(m, e, i) ==
    IF m.ctl # "run" \/ i > Len(m.expectations[e].responseExpectations) THEN m
    ELSE RunChecks(RunCheck([m EXCEPT !.tr.ran = Append(@, Began(m, i))],
                            m.expectations[e].responseExpectations[i],
                            m.tr.resp, m.tr.bodyStr, m.tr.extra),
                   e, i + 1)

RECURSIVE Capture(_, _, _)

\* for name, expr := range h.jsonCaptures { captures[name] = JsonContainsStr(...) }
\* in the order the map iteration takes.
Capture(m, e, order) ==
    IF m.ctl # "run" \/ order = <<>> THEN m
    ELSE LET Store(name, r) ==
                    IF r.m.ctl # "run" THEN r.m
                    ELSE Capture([r.m EXCEPT !.tr.captures = (name :> r.ret) @@ @,
                                             !.tr.resolved =
                                                Append(@, [name |-> name,
                                                           failed |-> Len(m.t.fatals)])],
                                 e, Tail(order))
         IN  Store(Head(order),
                   JsonContainsStr(m, m.tr.bodyStr, m.expectations[e].jsonCaptures[Head(order)],
                                   m.tr.extra))

Return(m) == IF m.ctl # "run" THEN m ELSE [m EXCEPT !.tr.returned = TRUE]

\* HttpExpectation.Test: marks the request done, finalises it, resolves its
\* URL against the server, sends it, reads the response, runs the checks in
\* order, resolves the captures and returns them.
Test(m, e, extra, strictColons, max, outcome, order) ==
    LET rq == m.expectations[e].request
        m0 == [m EXCEPT !.tr = [NoTrace EXCEPT !.extra = extra]]
        m1 == MarkDone(m0, rq)
        m2 == finalise(m1, rq)
        m3 == ResolveURL(m2, rq, strictColons)
        m4 == AttachRequestDump(m3, rq, max)
        m5 == Do(m4, rq, outcome)
        m6 == ReadBody(m5, outcome)
        m7 == AttachResponseDump(m6, max)
        m8 == RunChecks(m7, e, 1)
        m9 == Capture(m8, e, order)
    IN  Return(m9)


\* ------------------------------------------------------- New and teardown

\* testing.TB's Cleanup: f runs when the test has ended, last registered first.
testingCleanup(m, h) == [m EXCEPT !.t.cleanups = Append(@, h)]

\* exampleTestRunner.Cleanup: nothing to do.
exampleTestRunnerCleanup(m, h) == m

\* t.Cleanup(f), f the teardown of tester h.
Cleanup(m, h) ==
    IF m.t.kind = "testing" THEN testingCleanup(m, h) ELSE exampleTestRunnerCleanup(m, h)

\* New: a tester without requests, its teardown registered with t.
New(m) ==
    LET h == Len(m.testers) + 1
    IN  Ret(Cleanup([m EXCEPT !.testers = Append(@, [requests |-> <<>>])], h), h)

RECURSIVE Teardown(_, _, _)

\* The teardown New registers: a lifecycle failure for each request of the
\* tester that is not done, as far as the reporter lets the loop run.
Teardown(m, h, i) ==
    IF m.ctl # "run" \/ i > Len(m.testers[h].requests) THEN m
    ELSE LET req == m.requests[m.testers[h].requests[i]]
         IN  Teardown(IF ~req.done
                      THEN fatal(m, S(Sprintf(<<"forgot to execute Test on test request at:",
                                                "\n", "%s", "\n">>, <<S(<<req.stack>>)>>)), <<>>)
                      ELSE m,
                      h, i + 1)

\* ---------------------------------------------------------------- actions

MS ==
    [t |-> t, ctl |-> ctl, testers |-> testers, requests |-> requests,
     expectations |-> expectations, transport |-> transport, tr |-> NoTrace]

\* The variables take the state an operation left.
Becomes(m) ==
    /\ t' = m.t
    /\ ctl' = m.ctl
    /\ testers' = m.testers
    /\ requests' = m.requests
    /\ expectations' = m.expectations
    /\ transport' = m.transport
    /\ UNCHANGED <<build, MaxReqRespOutput, jcall>>

\* How many testers one test makes.
MaxTesters == 1

\* The places in the test that call Request.
Sites == {"a_test.go:10", "a_test.go:20"}

\* The orders in which a map with the keys S can be iterated.
Orders(keys) ==
    {o \in [1..Cardinality(keys) -> keys] :
        \A i, j \in 1..Cardinality(keys) : o[i] = o[j] => i = j}

\* ht := httptester.New(t, srv), as long as the test has made fewer than max
\* testers.
NewTester(max) ==
    /\ ctl = "run"
    /\ Len(testers) < max
    /\ LET Returns(r) ==
                /\ Becomes(r.m)
                /\ last' = [op |-> "New", tester |-> r.ret]
                /\ UNCHANGED ntests
       IN  Returns(New(MS))

\* ht.Request(method, path, options...) with the option expressions opts, at
\* one of the places Stacks, as long as the test has made fewer than max requests.
CallRequest(max, Stacks, Methods, Targets, OptionLists) ==
    /\ ctl = "run"
    /\ Len(requests) < max
    /\ \E h \in 1..Len(testers), method \in Methods, path \in Targets,
          stack \in Stacks, opts \in OptionLists :
         LET Returns(r) ==
                /\ Becomes(r.m)
                /\ last' = [op |-> "Request", tester |-> h, method |-> method, path |-> path,
                            stack |-> stack, options |-> opts, rq |-> r.ret,
                            before |-> Len(t.fatals), returned |-> r.m.ctl = "run",
                            had |-> Len(requests)]
                /\ UNCHANGED ntests
             Call(a) ==
                Returns(IF a.m.ctl = "run" THEN Request(a.m, h, method, path, stack, a.ret)
                        ELSE Ret(a.m, 0))
         IN  Call(MakeOptions(MS, opts, <<>>))

\* req.Expect(options...)
CallExpect(max, OptionLists) ==
    /\ ctl = "run"
    /\ Len(expectations) < max
    /\ \E rq \in 1..Len(requests), opts \in OptionLists :
         LET Returns(r) ==
                /\ Becomes(r.m)
                /\ last' = [op |-> "Expect", rq |-> rq, options |-> opts, e |-> r.ret]
                /\ UNCHANGED ntests
         IN  Returns(Expect(MS, rq, opts))

\* expectation.Test(extra...), the server answering with one of Outcomes.
CallTest(max, Outcomes, Diagnostics) ==
    /\ ctl = "run"
    /\ ntests < max
    /\ \E e \in 1..Len(expectations), extra \in Diagnostics, outcome \in Outcomes :
       \E order \in Orders(DOMAIN expectations[e].jsonCaptures) :
         LET Returns(m) ==
                /\ Becomes([m EXCEPT !.requests[expectations[e].request].tested = TRUE])
                /\ ntests' = ntests + 1
                /\ last' = [op |-> "Test", e |-> e, rq |-> expectations[e].request,
                            found |-> requests[expectations[e].request],
                            before |-> Len(t.fatals), sent |-> Len(transport),
                            outcome |-> outcome, tr |-> m.tr]
         IN  Returns(Test(MS, e, extra, build.strictColons, MaxReqRespOutput, outcome, order))

\* The test function returns.
TestReturns ==
    /\ ctl = "run"
    /\ ctl' = "exit"
    /\ last' = [op |-> "return"]
    /\ UNCHANGED <<t, build, testers, requests, expectations, transport,
                   MaxReqRespOutput, ntests, jcall>>

\* The test has ended: the cleanup registered last runs. A FailNow in it
\* ends that cleanup only.
RunCleanup ==
    /\ ctl # "run"
    /\ t.cleanups # <<>>
    /\ LET h == t.cleanups[Len(t.cleanups)]
           Ends(m) ==
                /\ Becomes([m EXCEPT !.ctl = ctl])
                /\ last' = [op |-> "cleanup", tester |-> h, before |-> Len(t.fatals)]
                /\ UNCHANGED ntests
       IN  Ends(Teardown([MS EXCEPT !.ctl = "run", !.t.cleanups = SubSeq(@, 1, Len(@) - 1)],
                         h, 1))

\* The responses of the server under test.
JsonType == ("Content-Type" :> <<<<"application/json">>>>)
R200 == [nil |-> FALSE, StatusCode |-> 200, Header |-> JsonType, Body |-> DocArr]
R200Obj == [nil |-> FALSE, StatusCode |-> 200, Header |-> JsonType, Body |-> DocObj]
R500 ==
    [nil |-> FALSE, StatusCode |-> 500, Header |-> ("Content-Type" :> <<<<"text/plain">>>>),
     Body |-> <<"oops">>]
R204 == [nil |-> FALSE, StatusCode |-> 204, Header |-> <<>>, Body |-> <<>>]

PathName == <<"$", "[", "0", "]", ".", "name">>
PathStreet == <<"$", "[", "0", "]", ".", "a", ".", "street">>
PathFirst == <<"$", "[", "0", "]">>

\* How many requests, expectations and Test calls a test of lifecycles makes.
MaxRequests == 2
MaxExpectations == 2
MaxTests == 2

\* What a test writes when no choice is at stake: one call site, a GET of
\* the root, no options and no diagnostics.
OneSite == {"a_test.go:10"}
Get == {"GET"}
Root == {<<"/">>}
NoOptions == {<<>>}
NoDiagnostics == {<<>>}

\* The response options and the outcomes of a test of request lifecycles.
LifecycleOptions == {<<>>, <<ExpectCode(200)>>}
LifecycleOutcomes == {Responded(R200), DoFails}

\* A test of request lifecycles: testers, requests, expectations, Test calls,
\* the end of the test and the teardowns.
Next ==
    \/ NewTester(MaxTesters)
    \/ CallRequest(MaxRequests, Sites, Get, Root, NoOptions)
    \/ CallExpect(MaxExpectations, LifecycleOptions)
    \/ CallTest(MaxTests, LifecycleOutcomes, NoDiagnostics)
    \/ TestReturns
    \/ RunCleanup

Spec == Init /\ [][Next]_vars

\* The request options a test of request building writes.
BodyTemplate == <<"{", "\"a\"", ":", "%s", "}">>
BuildOptions ==
    { <<>>,
      <<OptHeader("X-Id", <<"1">>), OptHeader("x-id", <<"2">>)>>,
      <<OptHeader("X-Id", <<"1">>), OptBearer("t1"), OptHeader("authorization", <<"Basic">>)>>,
      <<OptHeader("Authorization", <<"Basic">>), OptBearer("t2"), OptBearer("t3")>>,
      <<OptJsonBody(S(BodyTemplate), <<S(<<"1">>)>>)>>,
      <<OptJsonBody(R(DocObj), <<>>)>>,
      <<OptJsonBody(V(JObj("a" :> JStr("x"))), <<>>)>>,
      <<OptJsonBody(Chan, <<>>)>>,
      <<OptHeader("Content-Type", <<"text/plain">>), OptJsonBody(S(DocObj), <<>>)>>,
      <<OptMultipartFormField("f", <<"v">>), OptJsonBody(S(DocObj), <<>>)>>,
      <<OptJsonBody(S(DocObj), <<>>), OptMultipartFormFile("up", "a.txt", <<"data">>)>>,
      <<OptMultipartFormField("f", <<"v">>), OptHeader("Content-Type", <<"text/plain">>),
        OptMultipartFormFile("up", "a.txt", <<"data">>)>> }

\* The methods and the outcomes of a test of request building.
BuildMethods == {"GET", "BAD METHOD"}
BuildOutcomes == {Responded(R204)}

\* How many requests, expectations and Test calls a test of request building
\* makes.
MaxBuildRequests == 1
MaxBuildExpectations == 1
MaxBuildTests == 2

\* A test of request building: options of every kind, in several orders.
NextBuild ==
    \/ NewTester(MaxTesters)
    \/ CallRequest(MaxBuildRequests, OneSite, BuildMethods, Root, BuildOptions)
    \/ CallExpect(MaxBuildExpectations, NoOptions)
    \/ CallTest(MaxBuildTests, BuildOutcomes, NoDiagnostics)
    \/ TestReturns
    \/ RunCleanup

SpecBuild == Init /\ [][NextBuild]_vars

\* The response options a test of response checking writes.
CheckOptions ==
    { <<>>,
      <<CaptureJson("name", PathStreet), ExpectCode(200), CaptureJson("name", PathName),
        CaptureJson("street", PathStreet)>>,
      <<ExpectCode(200), ExpectContentType(<<"application/json">>),
        ExpectJsonMatchStr(PathName, "Scotty")>>,
      <<ExpectJsonExists(<<"$", ".", "a">>)>>,
      <<ExpectJsonExists(<<"$", ".", "e">>)>>,
      <<ExpectJsonExists(<<"$", ".", "n">>)>>,
      <<ExpectJsonExists(<<"$", ".", "q">>), CaptureJson("a", <<"$", ".", "a">>)>>,
      <<ExpectBodyContains(<<"\"Scotty\"">>), CaptureJson("first", PathFirst)>> }

\* The targets, the outcomes and the diagnostics of a test of response
\* checking.
CheckTargets == {<<"/">>, <<"x">>}
CheckOutcomes ==
    {Responded(R200), Responded(R200Obj), Responded(R500), DoFails, ReadFails(R200)}
CheckDiagnostics == {<<S(<<"while listing">>)>>}

\* How many requests, expectations and Test calls a test of response
\* checking makes.
MaxCheckRequests == 1
MaxCheckExpectations == 1
MaxCheckTests == 1

\* A test of response checking: checks and captures against the responses.
NextCheck ==
    \/ NewTester(MaxTesters)
    \/ CallRequest(MaxCheckRequests, OneSite, Get, CheckTargets, NoOptions)
    \/ CallExpect(MaxCheckExpectations, CheckOptions)
    \/ CallTest(MaxCheckTests, CheckOutcomes, CheckDiagnostics)
    \/ TestReturns
    \/ RunCleanup

SpecCheck == Init /\ [][NextCheck]_vars

\* httptester.MaxReqRespOutput = n: the test sets the package variable.
SetMaxReqRespOutput(Limits) ==
    /\ ctl = "run"
    /\ \E n \in Limits : MaxReqRespOutput' = n
    /\ last' = [op |-> "configure"]
    /\ UNCHANGED <<t, ctl, build, testers, requests, expectations, transport, ntests, jcall>>

\* The limits, the request options, the response options and the outcomes of
\* a test of the diagnostics: limits below, between and above the lengths of
\* the dumps, and a check that fails so that a failure carries them.
DumpLimits == {-1, 0, 4, 12, DefaultMaxReqRespOutput}
DumpOptions == {<<>>, <<OptJsonBody(S(DocObj), <<>>)>>}
DumpChecks == {<<>>, <<ExpectCode(204)>>}
DumpOutcomes == {Responded(R200), Responded(R204), DoFails}

\* How many requests, expectations and Test calls a test of the diagnostics
\* makes.
MaxDumpRequests == 1
MaxDumpExpectations == 1
MaxDumpTests == 1

\* A test of the diagnostics: requests executed under several limits.
NextDump ==
    \/ NewTester(MaxTesters)
    \/ SetMaxReqRespOutput(DumpLimits)
    \/ CallRequest(MaxDumpRequests, OneSite, Get, Root, DumpOptions)
    \/ CallExpect(MaxDumpExpectations, DumpChecks)
    \/ CallTest(MaxDumpTests, DumpOutcomes, NoDiagnostics)
    \/ TestReturns
    \/ RunCleanup

SpecDump == Init /\ [][NextDump]_vars

\* How many testers, requests, expectations and Test calls a test with
\* several sessions makes.
MaxFrameTesters == 2
MaxFrameRequests == 2
MaxFrameExpectations == 2
MaxFrameTests == 2

\* A test with several sessions: the requests of one tester, or of two,
\* executed or left, with methods that build a request and one that does not.
NextFrame ==
    \/ NewTester(MaxFrameTesters)
    \/ CallRequest(MaxFrameRequests, OneSite, BuildMethods, Root, NoOptions)
    \/ CallExpect(MaxFrameExpectations, NoOptions)
    \/ CallTest(MaxFrameTests, LifecycleOutcomes, NoDiagnostics)
    \/ TestReturns
    \/ RunCleanup

SpecFrame == Init /\ [][NextFrame]_vars


\* ================================================================ claims

\* Whether text begins with sub.
IsPrefix(sub, text) == Len(sub) <= Len(text) /\ SubSeq(text, 1, Len(sub)) = sub

\* The failures handed to Fatal since the reporter had seen `before` of them.
FatalsSince(before) == SubSeq(t.fatals, before + 1, Len(t.fatals))

\* What the helper's document and path denote: the decoded document, the
\* compiled path and the path's evaluation.
Denotes(data, pathexpr) ==
    LET u == Unmarshal(data)
        c == NewEvaluable(pathexpr)
    IN  [parsed |-> data # <<>> /\ u.err = <<>>,
         compiled |-> c.err = <<>>,
         r |-> Evaluate(c.sels, u.val)]

\* C7: for a parseable document D and a path P, JsonContainsStr(D, P) returns S
\* and reports nothing when P resolves to the string S; reports a type-mismatch
\* failure naming the path, the resolved value and the full data when P resolves
\* to a value that is no string; and reports the evaluator's failure when P
\* does not resolve.
C7_JsonContainsStr ==
    jcall.fn = "JsonContainsStr" =>
        LET d == Denotes(jcall.data, jcall.pathexpr)
            fs == FatalsSince(jcall.before)
        IN  (d.parsed /\ d.compiled) =>
              /\ (d.r.err = <<>> /\ d.r.val.t = "string") =>
                    /\ jcall.ret = JStr(d.r.val.v)
                    /\ fs = <<>>
                    /\ ctl = "run"
              /\ (d.r.err = <<>> /\ d.r.val.t # "string") =>
                    /\ fs # <<>>
                    /\ IsPrefix(<<"jsonpath does not resolve to a string value">>, fs[1])
                    /\ IsInfix(<<"path", "\n">> \o jcall.pathexpr, fs[1])
                    /\ IsInfix(<<"val", "\n">> \o FormatV(d.r.val), fs[1])
                    /\ IsInfix(<<"full data", "\n">> \o jcall.data, fs[1])
              /\ d.r.err # <<>> =>
                    /\ fs # <<>>
                    /\ IsPrefix(d.r.err \o <<"\n", "failed to capture JSON path">>, fs[1])

\* C7 witness: a nested path resolved to a string, which the helper returned.
C7_Witness ==
    /\ jcall.fn = "JsonContainsStr"
    /\ jcall.data = DocArr
    /\ jcall.pathexpr = <<"$", "[", "0", "]", ".", "name">>
    /\ jcall.ret = JStr("Scotty")
    /\ FatalsSince(jcall.before) = <<>>

\* C8 as claimed: for a parseable document D and a path P that compiles,
\* JsonNotContains reports no failure exactly when P has no match in D,
\* reports the matched value otherwise, and does not pass silently over an
\* evaluation error that is no not-found error.
C8_Original ==
    jcall.fn = "JsonNotContains" =>
        LET d == Denotes(jcall.data, jcall.pathexpr)
            fs == FatalsSince(jcall.before)
        IN  (d.parsed /\ d.compiled) =>
              /\ (fs = <<>>) <=> IsNotFound(d.r.err)
              /\ d.r.err = <<>> => IsInfix(<<"matched", "\n">> \o FormatV(d.r.val), fs[1])
              /\ (d.r.err # <<>> /\ ~IsNotFound(d.r.err)) => fs # <<>>

\* C8 as amended: for a parseable document D and a path P that compiles,
\* JsonNotContains reports no failure exactly when the evaluation of P against
\* D returns an error, of whatever kind; when P evaluates to a value it reports
\* one failure that carries the path and the matched value.
C8_JsonNotContains ==
    jcall.fn = "JsonNotContains" =>
        LET d == Denotes(jcall.data, jcall.pathexpr)
            fs == FatalsSince(jcall.before)
        IN  (d.parsed /\ d.compiled) =>
              /\ (fs = <<>>) <=> (d.r.err # <<>>)
              /\ d.r.err # <<>> => ctl = "run"
              /\ d.r.err = <<>> =>
                    /\ Len(fs) = 1
                    /\ IsPrefix(<<"did not expect JSON path to exist">>, fs[1])
                    /\ IsInfix(<<"path", "\n">> \o jcall.pathexpr, fs[1])
                    /\ IsInfix(<<"matched", "\n">> \o FormatV(d.r.val), fs[1])
                    /\ jcall.ret = d.r.val

\* C8 witness: a selector applied to a string, an evaluation error that is no
\* not-found error, passed silently.
C8_Witness ==
    /\ jcall.fn = "JsonNotContains"
    /\ jcall.data = DocObj
    /\ jcall.pathexpr = <<"$", ".", "a", ".", "b">>
    /\ ~IsNotFound(Denotes(jcall.data, jcall.pathexpr).r.err)
    /\ FatalsSince(jcall.before) = <<>>
    /\ ctl = "run"


\* The failures among fs whose text names the construction site stack.
Naming(fs, stack) == {k \in 1..Len(fs) : stack \in Range(fs[k])}

\* The requests of tester h that Test was never called on.
Unexecuted(h) ==
    {i \in 1..Len(testers[h].requests) : ~requests[testers[h].requests[i]].done}

\* C1: when the teardown of a tester has run, every request of the tester on
\* which Test was never called has caused exactly one lifecycle failure that
\* names its construction site: for every site, as many failures name it as
\* unexecuted requests were constructed there.
C1_Teardown ==
    last.op = "cleanup" =>
        \A stack \in Sites :
            Cardinality(Naming(FatalsSince(last.before), stack))
                = Cardinality({i \in Unexecuted(last.tester) :
                                  requests[testers[last.tester].requests[i]].stack = stack})

\* C1 for a tester that left at most one request unexecuted: the teardown
\* reports it, once.
C1_SingleUnexecuted ==
    (last.op = "cleanup" /\ Cardinality(Unexecuted(last.tester)) <= 1) => C1_Teardown

\* C2: no request is handed to the transport more than once.
C2_SentOnce ==
    \A i, j \in 1..Len(transport) : transport[i].rq = transport[j].rq => i = j

\* C2 for toolchains that reject the colons a second resolution puts in the
\* host: the second Test fails before it reaches the transport.
C2_StrictColons ==
    build.strictColons => C2_SentOnce


\* The capture names the response options register, and the path the last
\* registration of a name gave.
Registered(options) ==
    {options[i].name : i \in {k \in 1..Len(options) : options[k].op = "CaptureJson"}}

LastPath(options, name) ==
    LET regs == {k \in 1..Len(options) :
                    options[k].op = "CaptureJson" /\ options[k].name = name}
    IN  options[CHOOSE k \in regs : \A j \in regs : j <= k].text

\* C3: when Test has returned and reported no failure, the mapping it returned
\* has exactly the capture names registered on the expectation as its keys,
\* and maps each name to the string that the path last registered for the
\* name resolves to in the response body.
C3_Captures ==
    (last.op = "Test" /\ last.tr.returned /\ FatalsSince(last.before) = <<>>) =>
        LET options == expectations[last.e].options
        IN  /\ DOMAIN last.tr.captures = Registered(options)
            /\ \A name \in Registered(options) :
                 LET d == Denotes(last.outcome.resp.Body, LastPath(options, name))
                 IN  /\ d.parsed /\ d.compiled /\ d.r.err = <<>>
                     /\ d.r.val = JStr(last.tr.captures[name])

\* C3 witness: a Test that returned two captures, one of them registered
\* twice with different paths.
C3_Witness ==
    /\ last.op = "Test" /\ last.tr.returned /\ FatalsSince(last.before) = <<>>
    /\ Len(SelectSeq(expectations[last.e].options,
                     LAMBDA o : o.op = "CaptureJson" /\ o.name = "name")) = 2
    /\ last.tr.captures = ("name" :> "Scotty") @@ ("street" :> "Fake Street")

\* What claim C4 says of the last Test call: a mapping is returned only if the
\* call reported no failure, and no check was begun and no capture resolved
\* once a failure had been reported.
NoPartialSuccess ==
    /\ last.tr.returned => FatalsSince(last.before) = <<>>
    /\ \A k \in 1..Len(last.tr.ran) : last.tr.ran[k].failed = last.before
    /\ \A k \in 1..Len(last.tr.resolved) : last.tr.resolved[k].failed = last.before

\* C4 as claimed: Test has no partial success, whatever the reporter.
C4_Original ==
    last.op = "Test" => NoPartialSuccess

\* C4 as amended: under a reporter whose Fatal ends the calling goroutine, as
\* testing.TB's does, Test has no partial success. Under a reporter whose
\* Fatal returns, as the example's runner, a Test call that does not panic
\* goes on after a failure: it runs every check, resolves every capture and
\* returns a mapping.
C4_NoPartialSuccess ==
    last.op = "Test" =>
        /\ t.kind = "testing" => NoPartialSuccess
        /\ (t.kind = "example" /\ ctl = "run") =>
              /\ last.tr.returned
              /\ Len(last.tr.ran) = Len(expectations[last.e].responseExpectations)
              /\ {last.tr.resolved[k].name : k \in 1..Len(last.tr.resolved)}
                    = DOMAIN expectations[last.e].jsonCaptures

\* C4 witness: under testing.TB a check failed, and the call ended there: the
\* capture behind it was not resolved and nothing was returned.
C4_Witness ==
    /\ last.op = "Test" /\ t.kind = "testing"
    /\ Len(FatalsSince(last.before)) = 1
    /\ last.tr.ran # <<>>
    /\ DOMAIN expectations[last.e].jsonCaptures # {}
    /\ last.tr.resolved = <<>>
    /\ ~last.tr.returned

\* C4 witness of the other case: under the example's runner a check failed,
\* and the call went on to return a mapping.
C4_WitnessExample ==
    /\ last.op = "Test" /\ t.kind = "example"
    /\ FatalsSince(last.before) # <<>>
    /\ last.tr.returned

\* C10: a Test whose only check is ExpectJsonExists(path), with no capture,
\* reports no failure from the check exactly when path resolves in the parsed
\* response body to a non-empty string.
C10_ExpectJsonExists ==
    (/\ last.op = "Test"
     /\ Len(last.tr.ran) = 1
     /\ Len(expectations[last.e].responseExpectations) = 1
     /\ expectations[last.e].responseExpectations[1].op = "ExpectJsonExists"
     /\ DOMAIN expectations[last.e].jsonCaptures = {}) =>
        LET d == Denotes(last.tr.bodyStr, expectations[last.e].responseExpectations[1].text)
            passed == FatalsSince(last.tr.ran[1].failed) = <<>>
        IN  passed <=> (/\ d.parsed /\ d.compiled /\ d.r.err = <<>>
                        /\ d.r.val.t = "string" /\ d.r.val.v # "")

\* C10 without the demand that the string be non-empty: the check passes
\* exactly when path resolves to a string.
C10_AnyString ==
    (/\ last.op = "Test"
     /\ Len(last.tr.ran) = 1
     /\ Len(expectations[last.e].responseExpectations) = 1
     /\ expectations[last.e].responseExpectations[1].op = "ExpectJsonExists"
     /\ DOMAIN expectations[last.e].jsonCaptures = {}) =>
        LET d == Denotes(last.tr.bodyStr, expectations[last.e].responseExpectations[1].text)
            passed == FatalsSince(last.tr.ran[1].failed) = <<>>
        IN  passed <=> (/\ d.parsed /\ d.compiled /\ d.r.err = <<>>
                        /\ d.r.val.t = "string")


\* The header an option expression sets ("" when it sets none) and the value
\* it gives it.
HeaderKey(o) ==
    CASE o.op = "Header" -> CanonicalMIMEHeaderKey(o.name)
      [] o.op = "Bearer" -> "Authorization"
      [] o.op = "JsonBody" -> "Content-Type"
      [] OTHER -> ""

HeaderValue(o) ==
    CASE o.op = "Header" -> o.val
      [] o.op = "Bearer" -> <<"Bearer ">> \o o.val
      [] o.op = "JsonBody" -> <<"application/json">>
      [] OTHER -> <<>>

BodyByKind(o) ==
    CASE o.body.k = "string" -> Sprintf(o.body.x, o.args)
      [] o.body.k = "reader" -> o.body.x
      [] OTHER -> MarshalIndent(o.body).b

\* C9: when Request has returned a request made with one JsonBody option of
\* a value that has a JSON form, the body is the string with the arguments
\* substituted for a string, the reader's content for a reader, the indented
\* serialization for another value, and Content-Type is application/json.
C9_JsonBody ==
    (/\ last.op = "Request" /\ last.returned /\ ~requests[last.rq].request.nil
     /\ Len(last.options) = 1
     /\ last.options[1].op = "JsonBody"
     /\ MarshalIndent(last.options[1].body).err = <<>>) =>
        /\ requests[last.rq].request.Body
              = [kind |-> "string", data |-> BodyByKind(last.options[1])]
        /\ HeaderGet(requests[last.rq].request.Header, "Content-Type") = <<"application/json">>

\* C9 for the values that are no reader.
C9_NoReader ==
    (last.op = "Request" /\ Len(last.options) = 1 /\ last.options[1].body.k # "reader")
        => C9_JsonBody

\* The multipart options among the options a request was made with.
IsMultipart(o) == o.fn \in {"MultipartFormFile", "MultipartFormField"}

PartHeader(o) ==
    IF o.fn = "MultipartFormFile"
    THEN <<"Content-Disposition: form-data; name=", o.name, "; filename=", o.filename, "\r\n",
           "Content-Type: application/octet-stream", "\r\n">>
    ELSE <<"Content-Disposition: form-data; name=", o.name, "\r\n">>

RECURSIVE Parts(_, _)

Parts(parts, k) ==
    IF k > Len(parts) THEN <<>>
    ELSE (IF k > 1 THEN <<"\r\n">> ELSE <<>>) \o <<"--", Boundary, "\r\n">>
         \o PartHeader(parts[k]) \o <<"\r\n">> \o parts[k].val \o Parts(parts, k + 1)

\* The finalized multipart payload of the parts: each part behind a boundary
\* line, then the closing boundary line.
Payload(parts) == Parts(parts, 1) \o <<"\r\n", "--", Boundary, "--", "\r\n">>

\* What claim C5 says of the request the last Test call handed to the
\* transport.
SentAsBuilt ==
    LET sent == transport[Len(transport)]
        parts == SelectSeq(requests[last.rq].options, IsMultipart)
    IN  IF parts # <<>>
        THEN /\ sent.Body = Payload(parts)
             /\ HeaderGet(sent.Header, "Content-Type")
                    = <<"multipart/form-data; boundary=", Boundary>>
        ELSE /\ sent.Body = last.found.request.Body.data
             /\ sent.Header = last.found.request.Header

\* C5: the request a Test call sends has, when a multipart option was applied
\* to it, the finalized multipart payload as its body and the multipart content
\* type as its Content-Type, whatever the order of the options; when none was
\* applied, the body and the headers the options had set.
C5_Multipart ==
    (last.op = "Test" /\ Len(transport) > last.sent) => SentAsBuilt

\* C5 for the first Test call on a request.
C5_FirstTest ==
    (last.op = "Test" /\ ~last.found.done) => C5_Multipart


\* The failure MustParseJson reports for an empty input.
EmptyFailure == <<"cannot JSON parse an empty string">>

\* A JSON helper was called with the empty string as its document.
CalledOnEmpty == jcall.fn # "none" /\ jcall.data = <<>>

\* The path of the call compiles (MustParseJson takes no path).
PathCompiles == jcall.fn = "MustParseJson" \/ NewEvaluable(jcall.pathexpr).err = <<>>

\* C11 as claimed: every JSON helper given the empty string as its document
\* reports a failure and does not go on after it: it does not return to its
\* caller as if the document were null.
C11_Original ==
    CalledOnEmpty =>
        /\ FatalsSince(jcall.before) # <<>>
        /\ ctl # "run"

\* C11: every JSON helper given the empty string as its document reports a
\* failure, and the first failure it reports is the empty-input parse failure
\* (for JsonNotContains with a path that does not compile, the compile error,
\* which is checked first). Under a reporter whose Fatal ends the goroutine
\* that failure is the only one and the helper does not return; under a
\* reporter whose Fatal returns the helper goes on with a nil document, reports
\* the decoder's error as well, and returns unless it panics.
C11_EmptyIsFailure ==
    CalledOnEmpty =>
        LET fs == FatalsSince(jcall.before)
        IN  /\ fs # <<>>
            /\ IF jcall.fn = "JsonNotContains" /\ ~PathCompiles
               THEN IsPrefix(NewEvaluable(jcall.pathexpr).err, fs[1])
               ELSE IsPrefix(EmptyFailure, fs[1])
            /\ t.kind = "testing" => (Len(fs) = 1 /\ ctl = "exit")
            /\ (t.kind = "example" /\ PathCompiles) =>
                  /\ Len(fs) >= 2
                  /\ IsPrefix(EmptyFailure, fs[1])
                  /\ IsPrefix(Unmarshal(<<>>).err, fs[2])
                  /\ ctl = "run"

\* C11 witness: JsonNotContains of the empty string and the path $ ended the
\* test with the empty-input failure alone.
C11_Witness ==
    /\ jcall.fn = "JsonNotContains"
    /\ jcall.data = <<>>
    /\ jcall.pathexpr = <<"$">>
    /\ t.kind = "testing"
    /\ Len(FatalsSince(jcall.before)) = 1
    /\ IsPrefix(EmptyFailure, FatalsSince(jcall.before)[1])
    /\ ctl = "exit"


\* The texts that follow the label in the diagnostics of the last Test call.
AttachedDumps(label) ==
    LET extra == last.tr.extra
    IN  {extra[i + 1].x : i \in {j \in 1..(Len(extra) - 1) : extra[j] = S(<<label>>)}}

\* The first min(MaxReqRespOutput, len(dump)) units of a dump.
CutOf(dump) == SubSeq(dump, 1, Min(MaxReqRespOutput, Len(dump)))

\* A dump Test has made is attached once, cut to the limit.
AttachedCut(label, made) ==
    made # <<>> =>
        /\ AttachedDumps(label) = {CutOf(made[1])}
        /\ \A a \in AttachedDumps(label) :
              /\ Len(a) <= MaxReqRespOutput
              /\ IsPrefix(a, made[1])

\* C12: the request dump and the response dump a Test call has made are each
\* attached to its diagnostics as the first min(MaxReqRespOutput, len(dump))
\* units of the dump, a prefix of the dump no longer than MaxReqRespOutput,
\* whatever value MaxReqRespOutput has been set to.
C12_Dumps ==
    last.op = "Test" =>
        /\ AttachedCut("HTTP request:", last.tr.reqData)
        /\ AttachedCut("HTTP response:", last.tr.respData)

\* C12 for the limits that are not negative.
C12_NonNegative == MaxReqRespOutput >= 0 => C12_Dumps

\* A Test call under a limit between the lengths of its two dumps: the request
\* dump attached whole, the response dump cut, and a failure that carries both.
C12_Cut ==
    /\ last.op = "Test"
    /\ last.tr.reqData # <<>> /\ last.tr.respData # <<>>
    /\ Len(last.tr.reqData[1]) <= MaxReqRespOutput
    /\ Len(last.tr.respData[1]) > MaxReqRespOutput
    /\ AttachedDumps("HTTP response:") = {CutOf(last.tr.respData[1])}
    /\ Len(t.fatals) > last.before
    /\ IsInfix(<<"HTTP response:", "\n">> \o CutOf(last.tr.respData[1]), t.fatals[Len(t.fatals)])


\* The requests of tester h constructed at the site stack that Test was
\* never called on.
Untested(h, stack) ==
    {i \in 1..Len(testers[h].requests) :
        /\ ~requests[testers[h].requests[i]].tested
        /\ requests[testers[h].requests[i]].stack = stack}

\* Marking the request done is what Test does first: a request Test was called
\* on is done, however that call ended.
TestedIsDone == \A rq \in 1..Len(requests) : requests[rq].tested => requests[rq].done

\* C13: a request on which Test has been called is done however the call ended
\* (at URL resolution, at the transport, at a check or a capture), and so the
\* teardown never reports it as forgotten; and the teardown still reports
\* every request Test was never called on, with or without an expectation:
\* for every site, the failures of a teardown that name it are as many as the
\* tester's requests constructed there that Test was never called on.
C13_Done ==
    /\ TestedIsDone
    /\ last.op = "cleanup" =>
          \A stack \in Sites :
              Cardinality(Naming(FatalsSince(last.before), stack))
                  = Cardinality(Untested(last.tester, stack))

\* C13 without the demand that every forgotten request is reported: a request
\* Test was called on is done, and a teardown reports no more requests of a
\* site than were constructed there and never given to Test.
C13_NeverForgotten ==
    /\ TestedIsDone
    /\ last.op = "cleanup" =>
          \A stack \in Sites :
              Cardinality(Naming(FatalsSince(last.before), stack))
                  <= Cardinality(Untested(last.tester, stack))

\* C13 for a tester that left at most one request without a Test call.
C13_SingleUntested ==
    (last.op = "cleanup"
        => Cardinality(UNION {Untested(last.tester, stack) : stack \in Sites}) <= 1)
    => C13_Done

\* A teardown that reported nothing although a Test call on the tester's
\* request had failed.
C13_FailedTestNotReported ==
    /\ last.op = "cleanup"
    /\ FatalsSince(last.before) = <<>>
    /\ Len(t.fatals) > 0
    /\ \E rq \in 1..Len(requests) : requests[rq].tested


\* The last Test call got as far as its checks.
ReachedChecks == last.op = "Test" /\ "respdump" \in Range(last.tr.did)

\* The checks among the response options, in the order they were written.
ChecksOf(options) == SelectSeq(options, LAMBDA o : o.op # "CaptureJson")

\* The response as Test holds it once the body has been read.
Snapshot == [last.outcome.resp EXCEPT !.Body = last.tr.bodyStr]

\* C14: a Test call that gets as far as its checks runs them in the order
\* Expect registered them, which is the order they were written in; every
\* check it runs is given the same response and the same body text, read
\* once; it leaves a check unrun only when the goroutine has ended (the
\* reporter's Fatal ended it at a check that had just reported a failure, or
\* it panicked), so that where Fatal returns every check is run whatever the
\* earlier checks reported; and it resolves a capture only when every check
\* has been run.
C14_ChecksInOrder ==
    ReachedChecks =>
        LET checks == expectations[last.e].responseExpectations
            ran == last.tr.ran
        IN  /\ checks = ChecksOf(expectations[last.e].options)
            /\ Len(ran) <= Len(checks)
            /\ \A k \in 1..Len(ran) :
                  /\ ran[k].check = k
                  /\ ran[k].response = Snapshot
                  /\ ran[k].body = last.tr.bodyStr
                  /\ k > 1 => ran[k].failed >= ran[k - 1].failed
            /\ Len(ran) < Len(checks) =>
                  /\ ctl # "run"
                  /\ ran # <<>>
                  /\ t.kind = "testing" =>
                        /\ ran[Len(ran)].failed = last.before
                        /\ Len(t.fatals) = last.before + 1
            /\ (t.kind = "example" /\ ctl = "run") => Len(ran) = Len(checks)
            /\ last.tr.resolved # <<>> =>
                  /\ Len(ran) = Len(checks)
                  /\ \A k \in 1..Len(last.tr.resolved) :
                        ran # <<>> => last.tr.resolved[k].failed >= ran[Len(ran)].failed

\* C14 witness: under a reporter whose Fatal returns, the first of three
\* checks reported a failure and the other two were run after it, on the same
\* response.
C14_Witness ==
    /\ ReachedChecks
    /\ t.kind = "example"
    /\ Len(expectations[last.e].responseExpectations) = 3
    /\ Len(last.tr.ran) = 3
    /\ last.tr.ran[1].failed = last.before
    /\ last.tr.ran[2].failed > last.before
    /\ last.tr.ran[3].failed > last.tr.ran[2].failed
    /\ last.tr.ran[3].response = last.tr.ran[1].response

\* A Test call that ran its checks and then resolved a capture after a check
\* had failed.
C14_CaptureAfterChecks ==
    /\ ReachedChecks
    /\ last.tr.ran # <<>> /\ last.tr.resolved # <<>>
    /\ last.tr.resolved[1].failed > last.before


\* The last Request call reported a failure: its method and path made no
\* request, or a body value among its options had no JSON form.
ConstructionFailed == last.op = "Request" /\ FatalsSince(last.before) # <<>>

\* The errors of construction: http.NewRequest's and json.MarshalIndent's.
ConstructionErrors == {<<"net/http: invalid method">>, <<"json: unsupported type">>}

\* The options of the last Request call that write through the http.Request.
WritesRequest(o) == o.op \in {"Header", "Bearer", "JsonBody"}

\* C15 as claimed: a Request call that reported a construction error has
\* registered no request, whatever the reporter, so that none of its options
\* was applied and nothing is left for a later Test.
C15_Original ==
    ConstructionFailed =>
        /\ Len(requests) = last.had
        /\ \A h \in 1..Len(testers) : \A i \in 1..Len(testers[h].requests) :
              testers[h].requests[i] <= last.had

\* C15: a Request call that fails to build its request, or to serialize a
\* body value, reports the construction error as its first failure. Under a
\* reporter whose Fatal ends the goroutine that is its only failure, the call
\* does not return and it registers no request, so none of its options is
\* applied. Under a reporter whose Fatal returns the call goes on: it
\* registers the request, not done, and applies the options; when the request
\* could not be built the registered request holds no http.Request and the
\* first option that writes through it panics, and when only a body value
\* failed to serialize the JsonBody option is applied with an empty body.
C15_ConstructionError ==
    ConstructionFailed =>
        LET fs == FatalsSince(last.before)
        IN  /\ \E err \in ConstructionErrors : IsPrefix(err, fs[1])
            /\ t.kind = "testing" =>
                  /\ Len(fs) = 1
                  /\ ctl = "exit" /\ ~last.returned
                  /\ C15_Original
            /\ t.kind = "example" =>
                  /\ Len(requests) = last.had + 1
                  /\ last.rq = Len(requests)
                  /\ testers[last.tester].requests[Len(testers[last.tester].requests)] = last.rq
                  /\ ~requests[last.rq].done
                  /\ requests[last.rq].request.nil =>
                        (ctl = "panic" <=> \E k \in 1..Len(last.options) :
                                                WritesRequest(last.options[k]))
                  /\ ~requests[last.rq].request.nil =>
                        /\ ctl = "run"
                        /\ last.options[Len(last.options)].op = "JsonBody" =>
                              /\ HeaderGet(requests[last.rq].request.Header, "Content-Type")
                                    = <<"application/json">>
                              /\ requests[last.rq].request.Body.kind = "string"

\* C15 witness: under testing.TB a Request with an invalid method and two
\* options reported the error and registered nothing.
C15_Witness ==
    /\ ConstructionFailed
    /\ t.kind = "testing"
    /\ last.method = "BAD METHOD"
    /\ Len(last.options) >= 2
    /\ Len(FatalsSince(last.before)) = 1
    /\ Len(requests) = last.had
    /\ ctl = "exit"

\* A half-built request left registered: the reporter's Fatal returned and no
\* option wrote through the missing http.Request.
C15_HalfBuilt ==
    /\ ConstructionFailed
    /\ t.kind = "example"
    /\ ctl = "run"
    /\ requests[last.rq].request.nil
    /\ ~requests[last.rq].done


\* What a step may do to the pending requests of the testers there were: leave
\* them, or, in a Request call on the tester, append the one new request.
PendingFrame ==
    \A h \in 1..Len(testers) :
        \/ testers'[h].requests = testers[h].requests
        \/ /\ last'.op = "Request" /\ last'.tester = h
           /\ Len(requests') = Len(requests) + 1
           /\ testers'[h].requests = Append(testers[h].requests, Len(requests'))
           /\ requests'[Len(requests')].tester = h
           /\ ~requests'[Len(requests')].done

\* A step makes a request only in a Request call, one at a time, and the call
\* registers it with its tester and with no other.
RegisteredOnce ==
    /\ Len(requests') >= Len(requests)
    /\ Len(requests') > Len(requests) =>
          /\ last'.op = "Request"
          /\ Len(requests') = Len(requests) + 1
          /\ \A h \in 1..Len(testers') :
                Len(requests') \in Range(testers'[h].requests) <=> h = last'.tester

\* A step makes a tester only in New, with no pending request.
NewIsEmpty ==
    /\ Len(testers') >= Len(testers)
    /\ \A h \in (Len(testers) + 1)..Len(testers') :
          last'.op = "New" /\ testers'[h].requests = <<>>

\* A step leaves the requests there were with their tester and their site;
\* done stays done; and done changes only for the request of a Test call.
DoneFrame ==
    \A rq \in 1..Len(requests) :
        /\ requests'[rq].tester = requests[rq].tester
        /\ requests'[rq].stack = requests[rq].stack
        /\ requests[rq].done => requests'[rq].done
        /\ requests'[rq].done # requests[rq].done => (last'.op = "Test" /\ last'.rq = rq)

\* C16: the pending requests of a tester change only in a Request call on
\* that tester, which appends exactly the new request; New, Expect, Test and
\* the teardown leave every tester's pending requests as they were, in
\* membership and in order; no request is ever removed; a done flag never goes
\* back to false; and a Test call changes the done flag of its own request
\* only, whichever tester the other requests belong to.
C16_Frame == [][PendingFrame /\ RegisteredOnce /\ NewIsEmpty /\ DoneFrame]_vars

\* C16 witness: two testers with a request each; Test was called on the first
\* tester's request only, and a teardown has run: the first request is done,
\* the second is not, and both are still pending with their testers.
C16_Witness ==
    /\ Len(testers) = 2 /\ Len(requests) = 2
    /\ testers[1].requests = <<1>> /\ testers[2].requests = <<2>>
    /\ requests[1].done /\ requests[1].tested
    /\ ~requests[2].done
    /\ last.op = "cleanup"

=============================================================================
